---- MODULE Spec2Model ----
(***************************************************************************)
(* Emotion inference pipeline of emotion-sync-ui:                          *)
(*   EmotionDetectionService (model loader, primary classifier, fallback   *)
(*   classifier, detectEmotionWithFallback) and the Index page's polling   *)
(*   aggregator (interval effect, currentEmotion, emotionHistory).         *)
(* Units: time in milliseconds, confidences and raw scores in hundredths.  *)
(***************************************************************************)
EXTENDS Integers, Sequences, FiniteSets, TLC

\* ------------------------------------------------------------------ bounds
MaxInitCalls == 2        \* initialize() calls issued by the Index effect
MaxTicks == 52           \* timer firings explored when the fallback is pinned
MaxTicksPrimary == 3     \* timer firings explored in primary-first mode
MaxInFlight == 2         \* detection calls that may be pending at once
MaxClicks == 3           \* clicks on the camera button

\* --------------------------------------------------------- program constants
NumCandidates == 3       \* modelOptions.length
HistoryKeep == 49        \* prev.slice(-49)
TickInterval == 2000     \* setInterval(detectEmotion, 2000)
FallbackWindow == 3000   \* currentTime / 3000
DefaultScore == 50       \* topResult.score || 0.5
ConfidenceMin == 0       \* Math.max(0, ...)
ConfidenceMax == 100     \* Math.min(1, ...)
FallbackBase == 40       \* 0.4 + Math.random() * 0.3
FallbackSpan == 30       \* 0.4 + Math.random() * 0.3
MinSide == 224           \* Math.max(..., 224)
DefaultWidth == 640      \* videoWidth || 640, width || 640
DefaultHeight == 480     \* videoHeight || 480, height || 480
RandDenom == 10          \* resolution of the modelled Math.random()

Null == 0                \* the absent classifier handle / no video element

Min(a, b) == IF a < b THEN a ELSE b
Max(a, b) == IF a > b THEN a ELSE b

\* ------------------------------------------------------------ label strings
\* A raw label is a sequence of one-character strings, so that
\* String.prototype.toLowerCase is computed character by character.
UpperToLower ==
  [c \in {"A","B","C","D","E","F","G","H","I","J","K","L","M","N","O","P",
          "Q","R","S","T","U","V","W","X","Y","Z"} |->
     CASE c = "A" -> "a" [] c = "B" -> "b" [] c = "C" -> "c" [] c = "D" -> "d"
       [] c = "E" -> "e" [] c = "F" -> "f" [] c = "G" -> "g" [] c = "H" -> "h"
       [] c = "I" -> "i" [] c = "J" -> "j" [] c = "K" -> "k" [] c = "L" -> "l"
       [] c = "M" -> "m" [] c = "N" -> "n" [] c = "O" -> "o" [] c = "P" -> "p"
       [] c = "Q" -> "q" [] c = "R" -> "r" [] c = "S" -> "s" [] c = "T" -> "t"
       [] c = "U" -> "u" [] c = "V" -> "v" [] c = "W" -> "w" [] c = "X" -> "x"
       [] c = "Y" -> "y" [] c = "Z" -> "z"]

toLowerCase(s) ==
  [i \in DOMAIN s |-> IF s[i] \in DOMAIN UpperToLower THEN UpperToLower[s[i]] ELSE s[i]]

\* The seven-label taxonomy, in the order of the fallback's emotions array.
emotions == <<"happy", "neutral", "surprised", "sad", "angry", "fear", "disgust">>
CanonicalLabels == {emotions[i] : i \in DOMAIN emotions}

\* Own properties of the emotionMap object literal.
emotionMapOwn ==
  ( <<"a","n","g","r","y">> :> "angry"
 @@ <<"d","i","s","g","u","s","t","e","d">> :> "disgust"
 @@ <<"f","e","a","r","f","u","l">> :> "fear"
 @@ <<"h","a","p","p","y">> :> "happy"
 @@ <<"n","e","u","t","r","a","l">> :> "neutral"
 @@ <<"s","a","d">> :> "sad"
 @@ <<"s","u","r","p","r","i","s","e","d">> :> "surprised"
 @@ <<"c","o","n","t","e","m","p","t">> :> "disgust"
 @@ <<"d","i","s","g","u","s","t">> :> "disgust"
 @@ <<"f","e","a","r">> :> "fear"
 @@ <<"j","o","y">> :> "happy"
 @@ <<"s","a","d","n","e","s","s">> :> "sad"
 @@ <<"a","n","g","e","r">> :> "angry" )

\* emotionMap is a plain object literal, so a property read that misses the
\* own keys continues on Object.prototype.  Its members are objects and
\* functions (all truthy); a key found nowhere reads as undefined.
Undefined == "undefined"
ObjectPrototype ==
  ( <<"c","o","n","s","t","r","u","c","t","o","r">> :> "[Function: Object]"
 @@ <<"_","_","p","r","o","t","o","_","_">> :> "[Object: null prototype]"
 @@ <<"t","o","S","t","r","i","n","g">> :> "[Function: toString]"
 @@ <<"v","a","l","u","e","O","f">> :> "[Function: valueOf]"
 @@ <<"h","a","s","O","w","n","P","r","o","p","e","r","t","y">> :> "[Function: hasOwnProperty]" )

emotionMap(key) ==
  IF key \in DOMAIN emotionMapOwn THEN emotionMapOwn[key]
  ELSE IF key \in DOMAIN ObjectPrototype THEN ObjectPrototype[key]
  ELSE Undefined

\* emotionMap[topResult.label.toLowerCase()] || 'neutral'
mappedEmotion(label) ==
  LET v == emotionMap(toLowerCase(label))
  IN  IF v = Undefined THEN "neutral" ELSE v

\* ------------------------------------------------------------------ scores
\* A raw score is a number (in hundredths), NaN, or absent (undefined).
Num(n) == [tag |-> "num", val |-> n]
NaN == [tag |-> "nan", val |-> 0]
Absent == [tag |-> "absent", val |-> 0]

\* JavaScript truthiness of a score: 0, NaN and undefined are falsy.
Truthy(score) == score.tag = "num" /\ score.val # 0

\* Mutant: the upper clamp Math.min(1, ...) left out.
confidence_noUpperClamp(score) ==
  LET s == IF Truthy(score) THEN score.val ELSE DefaultScore
  IN  Max(ConfidenceMin, s)

\* Math.max(0, Math.min(1, topResult.score || 0.5))
confidence(score) ==
  LET s == IF Truthy(score) THEN score.val ELSE DefaultScore
  IN  Max(ConfidenceMin, Min(ConfidenceMax, s))

\* ------------------------------------------------------------- predictions
Prediction(e, c, t) == [emotion |-> e, confidence |-> c, timestamp |-> t]
NullPrediction == [emotion |-> "null", confidence |-> -1, timestamp |-> -1]

\* Math.random() is a pseudo-random generator: rng is its hidden state and the
\* value returned is rng / RandDenom, in [0, 1).
NextRandom(r) == (r + 3) % RandDenom

\* Mutant: the window index reduced modulo emotions.length - 1, so the last
\* label is never selected.
fallbackEmotionDetection_shortCycle(t, r) ==
  LET emotionIndex == (t \div FallbackWindow) % (Len(emotions) - 1)
  IN  Prediction(emotions[emotionIndex + 1],
                 FallbackBase + (FallbackSpan * r) \div RandDenom,
                 t)

\* fallbackEmotionDetection: label cycles with the 3000 ms window of the
\* clock, confidence = 0.4 + Math.random() * 0.3.
fallbackEmotionDetection(t, r) ==
  LET emotionIndex == (t \div FallbackWindow) % Len(emotions)
  IN  Prediction(emotions[emotionIndex + 1],
                 FallbackBase + (FallbackSpan * r) \div RandDenom,
                 t)

\* The raw outcome of one classifier invocation.
RawResult(l, s) == [kind |-> "array", label |-> l, score |-> s]
EmptyResult == [kind |-> "empty", label |-> <<>>, score |-> Absent]

\* detectEmotion's handling of a resolved classifier call (lines 112-145):
\* the top result normalised, or null for an empty / non-array result.
primaryPrediction(results, t) ==
  IF results.kind = "array"
  THEN [kind |-> "prediction",
        value |-> Prediction(mappedEmotion(results.label), confidence(results.score), t)]
  ELSE [kind |-> "null", value |-> NullPrediction]

\* How an awaited call settles: resolved with a prediction, resolved with
\* null, or rejected.
Settled(k, v) == [kind |-> k, value |-> v]

\* Mutant: no try/catch around the detectEmotion call, so its rejection
\* propagates.
detectEmotionWithFallback_noCatch(primary, t, r) ==
  IF primary.kind = "null" THEN Settled("prediction", fallbackEmotionDetection(t, r))
  ELSE primary

\* Mutant: detectEmotion's answer returned as it is, null included.
detectEmotionWithFallback_nullThrough(primary, t, r) ==
  IF primary.kind = "rejected" THEN Settled("prediction", fallbackEmotionDetection(t, r))
  ELSE primary

\* Mutant: the fallback answers every call, the model's prediction is dropped.
detectEmotionWithFallback_fallbackAlways(primary, t, r) ==
  Settled("prediction", fallbackEmotionDetection(t, r))

\* detectEmotionWithFallback in primary-first mode: the model's prediction
\* when detectEmotion resolved to one; the fallback when it resolved to null
\* or rejected (the catch block).
detectEmotionWithFallback(primary, t, r) ==
  IF primary.kind = "prediction" THEN primary
  ELSE Settled("prediction", fallbackEmotionDetection(t, r))

\* detectEmotionWithFallback with the fallback pinned (line 173).
detectEmotionWithFallbackPinned(t, r) ==
  Settled("prediction", fallbackEmotionDetection(t, r))

\* setEmotionHistory(prev => [...prev.slice(-49), prediction])
slice(prev, n) == SubSeq(prev, Max(1, Len(prev) - n + 1), Len(prev))
\* Mutant: prev.slice(-50), one entry too many kept.
appendHistory_keep50(prev, p) == Append(slice(prev, HistoryKeep + 1), p)
\* Mutant: the new prediction put first, [prediction, ...prev.slice(-49)].
appendHistory_prepend(prev, p) == <<p>> \o slice(prev, HistoryKeep)
appendHistory(prev, p) == Append(slice(prev, HistoryKeep), p)

\* Mutant: the guard tests isInitialized only.
initializeReturnsEarly_readyOnly(initialized, initializing) == initialized

\* initialize()'s entry guard: if (this.isInitialized || this.isInitializing) return;
initializeReturnsEarly(initialized, initializing) == initialized \/ initializing

\* ------------------------------------------------------------------- state
VARIABLES
  mode,            \* "primaryFirst" | "fallbackOnly": body of detectEmotionWithFallback
  now,             \* Date.now()
  rng,             \* hidden state of Math.random()
  ticks,           \* timer firings so far
  classifier,      \* EmotionDetectionService.classifier (Null or candidate index)
  isInitialized,   \* EmotionDetectionService.isInitialized
  isInitializing,  \* EmotionDetectionService.isInitializing
  uiInit,          \* initialize() calls made by the Index effect
  detects,         \* pending detectEmotionWithFallback calls of the timer
  attempts,        \* pipeline() calls of the latest load sequence (the console log)
  lastOutcome,     \* what the latest completed detectEmotionWithFallback resolved to
  currentEmotion,  \* Index state
  emotionHistory,  \* Index state
  videoElement,    \* Index state
  intervals,       \* the live setInterval handles, each named by the element it polls
  mounted,         \* Index is mounted
  probe,           \* a raw classifier result and the prediction made from it
  webcam           \* WebcamFeed: its state, its video element's stream, the camera

svcVars == <<classifier, isInitialized, isInitializing>>
loadVars == <<uiInit, attempts>>
clockVars == <<now, ticks>>
indexVars == <<currentEmotion, emotionHistory>>
attachVars == <<videoElement, intervals, mounted>>
vars == <<mode, now, rng, ticks, classifier, isInitialized, isInitializing,
          uiInit, detects, attempts, lastOutcome, currentEmotion,
          emotionHistory, videoElement, intervals, mounted, probe, webcam>>

StartTimes == {0}
Seeds == {7}
VideoElements == {1, 2}
ExtractOutcomes == {"ok", "noContext", "encodeError"}

Joy == <<"J","o","y">>
\* What the loaded model may answer during polling.
ClassifierOutputs == {RawResult(Joy, Num(140)), EmptyResult}

IdleCall == [pc |-> "idle", cand |-> 0, at |-> "none"]
IdleFrame == [pc |-> "idle", cand |-> 0, att |-> 0]
NoOutcome == [primary |-> "none", kind |-> "none", result |-> NullPrediction,
              invoked |-> "no", frame |-> "none"]
NoSource == [kind |-> "none", videoWidth |-> 0, videoHeight |-> 0, width |-> 0, height |-> 0]
NoCanvas == [width |-> 0, height |-> 0]
NoProbe == [by |-> "none", results |-> EmptyResult, prediction |-> NullPrediction,
            before |-> NullPrediction, source |-> NoSource, canvas |-> NoCanvas]

\* WebcamFeed after its first render: inactive, not loading, no stream.
\* pc is startWebcam's position, liveStreams the granted streams whose tracks
\* have not been stopped, toast the latest notice, lastStart how the latest
\* startWebcam ended, clicks the clicks on the button so far.
NoWebcam == [isActive |-> FALSE, isLoading |-> FALSE, pc |-> "idle",
             srcObject |-> Null, liveStreams |-> {}, toast |-> "none",
             lastStart |-> "none", clicks |-> 0]

UiOwner(i) == [kind |-> "ui", id |-> i]
DetectOwner(d) == [kind |-> "detect", id |-> d]
Attempt(o, k) == [owner |-> o, cand |-> k, result |-> "pending"]

\* The last sequence of pipeline() calls ran through every candidate and
\* they all failed.
AllCandidatesFailed ==
  /\ Len(attempts) >= NumCandidates
  /\ attempts[Len(attempts)].cand = NumCandidates
  /\ attempts[Len(attempts)].result = "failed"

\* ClassifierState as the four-valued machine of the loader.
LoaderState ==
  IF isInitialized THEN "ready"
  ELSE IF isInitializing THEN "initializing"
  ELSE IF AllCandidatesFailed THEN "failed"
  ELSE "uninitialized"

\* isReady()
isReady == isInitialized

Init ==
  /\ mode \in {"primaryFirst", "fallbackOnly"}
  /\ now \in StartTimes
  /\ rng \in Seeds
  /\ ticks = 0
  /\ classifier = Null
  /\ isInitialized = FALSE
  /\ isInitializing = FALSE
  /\ uiInit = [i \in 1..MaxInitCalls |-> IdleCall]
  /\ detects = [d \in 1..MaxInFlight |-> IdleFrame]
  /\ attempts = <<>>
  /\ lastOutcome = NoOutcome
  /\ currentEmotion = NullPrediction
  /\ emotionHistory = <<>>
  /\ videoElement = Null
  /\ intervals = {}
  /\ mounted = TRUE
  /\ probe = NoProbe
  /\ webcam = NoWebcam

\* ------------------------------------------------------------ model loader
\* Record the outcome of owner o's pending pipeline() call in the log.
MarkAttempt(log, o, res) ==
  LET idx == {i \in DOMAIN log : log[i].owner = o /\ log[i].result = "pending"}
  IN  [i \in DOMAIN log |-> IF i \in idx THEN [log[i] EXCEPT !.result = res] ELSE log[i]]

\* initialize() past its guard: set the latch and call pipeline() for the
\* first candidate (lines 29-43).
BeginLoad(o) ==
  /\ isInitializing' = TRUE
  /\ attempts' = IF isInitializing THEN Append(attempts, Attempt(o, 1))
                 ELSE <<Attempt(o, 1)>>
  /\ UNCHANGED <<classifier, isInitialized>>

\* Mutant: no break after a successful load, the loop goes on to the next
\* candidate.
AdoptCandidate_noBreak(o, k) ==
  /\ classifier' = k
  /\ isInitialized' = TRUE
  /\ isInitializing' = FALSE
  /\ attempts' = IF k < NumCandidates
                 THEN Append(MarkAttempt(attempts, o, "ok"), Attempt(o, k + 1))
                 ELSE MarkAttempt(attempts, o, "ok")

\* Mutant: the latch is released only by the throw path, not after a
\* successful load.
AdoptCandidate_latchHeld(o, k) ==
  /\ classifier' = k
  /\ isInitialized' = TRUE
  /\ attempts' = MarkAttempt(attempts, o, "ok")
  /\ UNCHANGED isInitializing

\* pipeline() resolved for candidate k: adopt it, break, release the latch.
AdoptCandidate(o, k) ==
  /\ classifier' = k
  /\ isInitialized' = TRUE
  /\ isInitializing' = FALSE
  /\ attempts' = MarkAttempt(attempts, o, "ok")

\* pipeline() rejected for candidate k < NumCandidates: continue with k + 1.
NextCandidate(o, k) ==
  /\ attempts' = Append(MarkAttempt(attempts, o, "failed"), Attempt(o, k + 1))
  /\ UNCHANGED svcVars

\* Mutant: the latch is not released when initialize() throws (no finally).
GiveUp_latchHeld(o) ==
  /\ attempts' = MarkAttempt(attempts, o, "failed")
  /\ UNCHANGED <<classifier, isInitialized, isInitializing>>

\* pipeline() rejected for the last candidate: throw, release the latch.
GiveUp(o) ==
  /\ isInitializing' = FALSE
  /\ attempts' = MarkAttempt(attempts, o, "failed")
  /\ UNCHANGED <<classifier, isInitialized>>

\* --------------------------------------------------- Index: polling handler
\* Mutant: a tick whose detectEmotion gave no prediction records nothing.
Resolve_skipsWithoutPrimary(d, primary, t, invoked, frame) ==
  LET usedFallback == mode = "fallbackOnly" \/ primary.kind # "prediction"
      result == IF mode = "fallbackOnly" THEN detectEmotionWithFallbackPinned(t, rng)
                ELSE detectEmotionWithFallback(primary, t, rng)
  IN  /\ rng' = IF usedFallback THEN NextRandom(rng) ELSE rng
      /\ lastOutcome' = [primary |-> primary.kind, kind |-> result.kind,
                         result |-> result.value, invoked |-> invoked,
                         frame |-> frame]
      /\ detects' = [detects EXCEPT ![d] = IdleFrame]
      /\ IF primary.kind \in {"prediction", "skipped"} /\ mounted
         THEN /\ currentEmotion' = result.value
              /\ emotionHistory' = appendHistory(emotionHistory, result.value)
         ELSE UNCHANGED indexVars

\* The tail of one detectEmotionWithFallback call and of Index.detectEmotion
\* awaiting it: the value resolved, then setCurrentEmotion / setEmotionHistory
\* when it is non-null (state updates of an unmounted component are dropped).
\* invoked records what the call applied as this.classifier: nothing ("no"),
\* the loaded pipeline ("handle") or the still-null field ("null"); frame
\* records how the call's frame extraction ended ("none" when it had none).
Resolve(d, primary, t, invoked, frame) ==
  LET usedFallback == mode = "fallbackOnly" \/ primary.kind # "prediction"
      result == IF mode = "fallbackOnly" THEN detectEmotionWithFallbackPinned(t, rng)
                ELSE detectEmotionWithFallback(primary, t, rng)
  IN  /\ rng' = IF usedFallback THEN NextRandom(rng) ELSE rng
      /\ lastOutcome' = [primary |-> primary.kind, kind |-> result.kind,
                         result |-> result.value, invoked |-> invoked,
                         frame |-> frame]
      /\ detects' = [detects EXCEPT ![d] = IdleFrame]
      /\ IF result.kind = "prediction" /\ result.value # NullPrediction /\ mounted
         THEN /\ currentEmotion' = result.value
              /\ emotionHistory' = appendHistory(emotionHistory, result.value)
         ELSE UNCHANGED indexVars

\* detectEmotion after its initialize() await: extract the frame and invoke
\* this.classifier.  A missing 2d context, a failing encoder and a null
\* handle all throw inside the try block, so detectEmotion answers null.
AfterInitialize(d, handle, frame, t) ==
  \E ext \in ExtractOutcomes :
    IF ext = "ok" /\ handle # Null
    THEN /\ detects' = [detects EXCEPT ![d] = [frame EXCEPT !.pc = "classify_wait"]]
         /\ UNCHANGED <<rng, lastOutcome, indexVars>>
    ELSE Resolve(d, Settled("null", NullPrediction), t,
                 IF ext = "ok" THEN "null" ELSE "no", ext)

\* --------------------------------------------------------------- WebcamFeed
\* The <video> element WebcamFeed renders.
WebcamVideo == 1

\* videoRef.current: the <video> is rendered, and the ref attached, only
\* while isActive is true (lines 100-108).
videoRefCurrent(w) == IF mounted /\ w.isActive THEN WebcamVideo ELSE Null

\* The unmount effect of WebcamFeed (lines 89-96): stop the shown stream.
unmountCleanup(w) ==
  IF videoRefCurrent(w) # Null /\ w.srcObject # Null
  THEN [w EXCEPT !.liveStreams = @ \ {w.srcObject}]
  ELSE w

\* The errorMessage of the catch block (lines 52-62), by error.name and
\* error.message.
errorMessage(err) ==
  CASE err = "NotAllowedError" -> "permissionDenied"
    [] err = "NotFoundError" -> "noCamera"
    [] err = "NotSupportedError" -> "notSupported"
    [] err = "insecure" -> "https"
    [] OTHER -> "generic"

\* What startWebcam finds before it asks for the camera: a secure origin
\* with mediaDevices, an insecure origin, or no getUserMedia.
PreChecks == {"ok", "insecure", "unsupported"}
\* The names getUserMedia may reject with.
MediaErrors == {"NotAllowedError", "NotFoundError", "NotSupportedError", "AbortError"}

\* ----------------------------------------------------------------- actions
\* Index effect (line 226): emotionDetectionService.initialize().
UIInitialize(i) ==
  /\ mounted
  /\ uiInit[i].pc = "idle"
  /\ \A j \in 1..(i - 1) : uiInit[j].pc # "idle"
  /\ IF initializeReturnsEarly(isInitialized, isInitializing)
     THEN /\ uiInit' = [uiInit EXCEPT ![i] = [pc |-> "resolved", cand |-> 0, at |-> LoaderState]]
          /\ UNCHANGED <<svcVars, attempts>>
     ELSE /\ BeginLoad(UiOwner(i))
          /\ uiInit' = [uiInit EXCEPT ![i] = [pc |-> "loading", cand |-> 1, at |-> "none"]]
  /\ UNCHANGED <<mode, rng, clockVars, detects, lastOutcome, indexVars, attachVars, probe, webcam>>

\* The pipeline() call awaited by the Index effect's initialize() resolves.
UILoadSucceeds(i) ==
  /\ uiInit[i].pc = "loading"
  /\ AdoptCandidate(UiOwner(i), uiInit[i].cand)
  /\ uiInit' = [uiInit EXCEPT ![i] = [@ EXCEPT !.pc = "resolved", !.at = "ready"]]
  /\ UNCHANGED <<mode, rng, clockVars, detects, lastOutcome, indexVars, attachVars, probe, webcam>>

\* The pipeline() call awaited by the Index effect's initialize() rejects.
UILoadFails(i) ==
  /\ uiInit[i].pc = "loading"
  /\ IF uiInit[i].cand < NumCandidates
     THEN /\ NextCandidate(UiOwner(i), uiInit[i].cand)
          /\ uiInit' = [uiInit EXCEPT ![i] = [@ EXCEPT !.cand = @ + 1]]
     ELSE /\ GiveUp(UiOwner(i))
          /\ uiInit' = [uiInit EXCEPT ![i] =
                          [@ EXCEPT !.pc = "rejected",
                                    !.at = IF isInitialized THEN "ready" ELSE "failed"]]
  /\ UNCHANGED <<mode, rng, clockVars, detects, lastOutcome, indexVars, attachVars, probe, webcam>>

\* clearInterval(interval) in the effect's cleanup; the handle of an effect
\* that returned early (no element) names no timer.
clearInterval(h, live) == live \ {h}

\* setInterval(detectEmotion, 2000) in the effect body, detectEmotion being
\* the callback bound to element v.
setInterval(v, live) == live \cup {v}

\* Mutant: attaching an element also resets the recorded emotions.
HandleVideoReady_clearsHistory(v) ==
  /\ mounted
  /\ v # videoElement
  /\ videoElement' = v
  /\ intervals' = setInterval(v, clearInterval(videoElement, intervals))
  /\ currentEmotion' = NullPrediction
  /\ emotionHistory' = <<>>
  /\ UNCHANGED <<mode, rng, clockVars, svcVars, loadVars, detects, lastOutcome,
                 mounted, probe, webcam>>

\* Mutant: the interval effect returns no cleanup, the previous timer lives on.
HandleVideoReady_noCleanup(v) ==
  /\ mounted
  /\ v # videoElement
  /\ videoElement' = v
  /\ intervals' = setInterval(v, intervals)
  /\ UNCHANGED <<mode, rng, clockVars, svcVars, loadVars, detects, lastOutcome,
                 indexVars, mounted, probe, webcam>>

\* handleVideoReady(video): setVideoElement; the interval effect's cleanup
\* clears the previous interval and the effect creates a new one.
HandleVideoReady(v) ==
  /\ mounted
  /\ v # videoElement
  /\ videoElement' = v
  /\ intervals' = setInterval(v, clearInterval(videoElement, intervals))
  /\ UNCHANGED <<mode, rng, clockVars, svcVars, loadVars, detects, lastOutcome,
                 indexVars, mounted, probe, webcam>>

\* Index unmounts: the interval effect's cleanup runs, and so does the
\* cleanup of the WebcamFeed it rendered.
Unmount ==
  /\ mounted
  /\ mounted' = FALSE
  /\ intervals' = clearInterval(videoElement, intervals)
  /\ webcam' = unmountCleanup(webcam)
  /\ UNCHANGED <<mode, rng, clockVars, svcVars, loadVars, detects, lastOutcome,
                 indexVars, videoElement, probe>>

TickBound == IF mode = "fallbackOnly" THEN MaxTicks ELSE MaxTicksPrimary

\* Mutant: the pin is ignored, every tick goes through detectEmotion.
Tick_ignoresPin(d) ==
  /\ ticks < TickBound
  /\ detects[d].pc = "idle"
  /\ \A e \in 1..(d - 1) : detects[e].pc # "idle"
  /\ now' = now + TickInterval
  /\ ticks' = ticks + 1
  /\ \E h \in intervals :
       /\ h # Null
       /\ IF ~isInitialized /\ ~initializeReturnsEarly(isInitialized, isInitializing)
          THEN /\ BeginLoad(DetectOwner(d))
               /\ detects' = [detects EXCEPT ![d] = [pc |-> "init_wait", cand |-> 1, att |-> h]]
               /\ UNCHANGED <<rng, lastOutcome, indexVars>>
          ELSE /\ AfterInitialize(d, classifier, [IdleFrame EXCEPT !.att = h], now')
               /\ UNCHANGED <<svcVars, attempts>>
  /\ UNCHANGED <<mode, uiInit, attachVars, probe, webcam>>

\* The interval fires: Index.detectEmotion -> detectEmotionWithFallback.
Tick(d) ==
  /\ ticks < TickBound
  /\ detects[d].pc = "idle"
  /\ \A e \in 1..(d - 1) : detects[e].pc # "idle"
  /\ now' = now + TickInterval
  /\ ticks' = ticks + 1
  /\ \E h \in intervals :
       /\ h # Null
       /\ IF mode = "fallbackOnly"
          THEN /\ Resolve(d, Settled("skipped", NullPrediction), now', "no", "none")
               /\ UNCHANGED <<svcVars, attempts>>
          ELSE IF ~isInitialized /\ ~initializeReturnsEarly(isInitialized, isInitializing)
          THEN /\ BeginLoad(DetectOwner(d))
               /\ detects' = [detects EXCEPT ![d] = [pc |-> "init_wait", cand |-> 1, att |-> h]]
               /\ UNCHANGED <<rng, lastOutcome, indexVars>>
          ELSE /\ AfterInitialize(d, classifier, [IdleFrame EXCEPT !.att = h], now')
               /\ UNCHANGED <<svcVars, attempts>>
  /\ UNCHANGED <<mode, uiInit, attachVars, probe, webcam>>

\* The pipeline() call awaited by a detectEmotion's initialize() resolves.
DetectLoadSucceeds(d) ==
  /\ detects[d].pc = "init_wait"
  /\ AdoptCandidate(DetectOwner(d), detects[d].cand)
  /\ AfterInitialize(d, detects[d].cand, detects[d], now)
  /\ UNCHANGED <<mode, clockVars, uiInit, attachVars, probe, webcam>>

\* The pipeline() call awaited by a detectEmotion's initialize() rejects; on
\* the last candidate initialize() throws, detectEmotion rejects with it and
\* detectEmotionWithFallback's catch takes over.
DetectLoadFails(d) ==
  /\ detects[d].pc = "init_wait"
  /\ IF detects[d].cand < NumCandidates
     THEN /\ NextCandidate(DetectOwner(d), detects[d].cand)
          /\ detects' = [detects EXCEPT ![d] = [@ EXCEPT !.cand = @ + 1]]
          /\ UNCHANGED <<rng, lastOutcome, indexVars>>
     ELSE /\ GiveUp(DetectOwner(d))
          /\ Resolve(d, Settled("rejected", NullPrediction), now, "no", "none")
  /\ UNCHANGED <<mode, clockVars, uiInit, attachVars, probe, webcam>>

\* this.classifier(imageData) resolves.
ClassifierReturns(d) ==
  /\ detects[d].pc = "classify_wait"
  /\ \E res \in ClassifierOutputs :
       Resolve(d, primaryPrediction(res, now), now, "handle", "ok")
  /\ UNCHANGED <<mode, clockVars, svcVars, loadVars, attachVars, probe, webcam>>

\* this.classifier(imageData) rejects: caught, detectEmotion answers null.
ClassifierThrows(d) ==
  /\ detects[d].pc = "classify_wait"
  /\ Resolve(d, Settled("null", NullPrediction), now, "handle", "ok")
  /\ UNCHANGED <<mode, clockVars, svcVars, loadVars, attachVars, probe, webcam>>

Next ==
  \/ \E i \in 1..MaxInitCalls : UIInitialize(i)
  \/ \E i \in 1..MaxInitCalls : UILoadSucceeds(i)
  \/ \E i \in 1..MaxInitCalls : UILoadFails(i)
  \/ \E v \in VideoElements : HandleVideoReady(v)
  \/ Unmount
  \/ \E d \in 1..MaxInFlight : Tick(d)
  \/ \E d \in 1..MaxInFlight : DetectLoadSucceeds(d)
  \/ \E d \in 1..MaxInFlight : DetectLoadFails(d)
  \/ \E d \in 1..MaxInFlight : ClassifierReturns(d)
  \/ \E d \in 1..MaxInFlight : ClassifierThrows(d)

Spec == Init /\ [][Next]_vars

\* Every pipeline() call settles: the promise awaited by a pending
\* initialize() eventually resolves or rejects.
LoadsSettle ==
  /\ \A i \in 1..MaxInitCalls : WF_vars(UILoadSucceeds(i) \/ UILoadFails(i))
  /\ \A d \in 1..MaxInFlight : WF_vars(DetectLoadSucceeds(d) \/ DetectLoadFails(d))

SpecLoadsSettle == Spec /\ LoadsSettle

\* ------------------------------------------- the page with its WebcamFeed
\* onVideoReady(video) -> handleVideoReady: setVideoElement and, when the
\* element changed, the interval effect's cleanup and new timer.
onVideoReady(v) ==
  /\ videoElement' = v
  /\ intervals' = IF v = videoElement THEN intervals
                  ELSE setInterval(v, clearInterval(videoElement, intervals))

\* stopWebcam (lines 75-87); Index is not told.
stopWebcam ==
  /\ webcam' = IF videoRefCurrent(webcam) # Null /\ webcam.srcObject # Null
                THEN [webcam EXCEPT !.liveStreams = @ \ {webcam.srcObject},
                                    !.srcObject = Null,
                                    !.isActive = FALSE,
                                    !.toast = "stopped",
                                    !.clicks = @ + 1]
                ELSE [webcam EXCEPT !.clicks = @ + 1]
  /\ UNCHANGED <<videoElement, intervals>>

\* startWebcam up to its await (lines 18-39): the checks that throw run the
\* catch and the finally at once; otherwise getUserMedia is pending.
startWebcam(pre) ==
  /\ webcam' = IF pre = "ok"
                THEN [webcam EXCEPT !.isLoading = TRUE, !.pc = "media_wait",
                                    !.clicks = @ + 1]
                ELSE [webcam EXCEPT !.toast = errorMessage(pre),
                                    !.lastStart = pre,
                                    !.clicks = @ + 1]
  /\ UNCHANGED <<videoElement, intervals>>

\* A click on the button: onClick={isActive ? stopWebcam : startWebcam},
\* disabled while isLoading.
ClickButton(pre) ==
  /\ mounted
  /\ ~webcam.isLoading
  /\ webcam.clicks < MaxClicks
  /\ IF webcam.isActive THEN stopWebcam ELSE startWebcam(pre)
  /\ UNCHANGED <<mode, rng, clockVars, svcVars, loadVars, detects, lastOutcome,
                 indexVars, mounted, probe>>

\* getUserMedia resolves with a stream (lines 40-50, 70-72): the stream is
\* shown and reported to the page when videoRef.current is set.
GetUserMediaGrants ==
  /\ webcam.pc = "media_wait"
  /\ LET stream == webcam.clicks
         granted == [webcam EXCEPT !.liveStreams = @ \cup {stream},
                                   !.pc = "idle",
                                   !.isLoading = FALSE,
                                   !.lastStart = "granted"]
     IN  IF videoRefCurrent(webcam) # Null
         THEN /\ webcam' = [granted EXCEPT !.srcObject = stream,
                                           !.isActive = TRUE,
                                           !.toast = "active"]
              /\ onVideoReady(videoRefCurrent(webcam))
         ELSE /\ webcam' = granted
              /\ UNCHANGED <<videoElement, intervals>>
  /\ UNCHANGED <<mode, rng, clockVars, svcVars, loadVars, detects, lastOutcome,
                 indexVars, mounted, probe>>

\* getUserMedia rejects (lines 51-72).
GetUserMediaRejects(err) ==
  /\ webcam.pc = "media_wait"
  /\ webcam' = [webcam EXCEPT !.pc = "idle",
                              !.isLoading = FALSE,
                              !.toast = errorMessage(err),
                              !.lastStart = "rejected"]
  /\ UNCHANGED <<mode, rng, clockVars, svcVars, loadVars, detects, lastOutcome,
                 indexVars, attachVars, probe>>

\* The page as it is composed: the Index effect that loads the model, the
\* camera button of the WebcamFeed it renders, and the unmount.  The page's
\* timer exists only once onVideoReady has been called.
NextWebcam ==
  \/ \E i \in 1..MaxInitCalls : UIInitialize(i)
  \/ \E i \in 1..MaxInitCalls : UILoadSucceeds(i)
  \/ \E i \in 1..MaxInitCalls : UILoadFails(i)
  \/ \E pre \in PreChecks : ClickButton(pre)
  \/ GetUserMediaGrants
  \/ \E err \in MediaErrors : GetUserMediaRejects(err)
  \/ Unmount

SpecWebcam == Init /\ [][NextWebcam]_vars

\* ------------------------------------------- the classifiers, frame by frame
\* The two classifiers applied to single frames, over every raw answer a
\* model may give and every clock / Math.random() reading.
RawLabels ==
  { <<"J","o","y">>, <<"j","o","y">>, <<"H","A","P","P","Y">>, <<"x","y","z">>, <<>>,
    <<"C","o","n","t","e","m","p","t">>, <<"D","I","S","G","U","S","T","E","D">>,
    <<"S","a","d">>, <<"s","a","d","n","e","s","s">>, <<"A","n","g","e","r">>,
    <<"a","n","g","r","y">>, <<"F","e","a","r","f","u","l">>, <<"f","e","a","r">>,
    <<"s","u","r","p","r","i","s","e","d">>, <<"N","e","u","t","r","a","l">>,
    <<"d","i","s","g","u","s","t">>, <<"h","a","p","p","i","n","e","s","s">>,
    <<"c","o","n","s","t","r","u","c","t","o","r">>,
    <<"C","o","n","s","t","r","u","c","t","o","r">>,
    <<"_","_","p","r","o","t","o","_","_">>,
    <<"t","o","S","t","r","i","n","g">>, <<"v","a","l","u","e","O","f">> }
RawScores ==
  { Num(-20), Num(0), Num(1), Num(50), Num(99), Num(100), Num(140), NaN, Absent }
RawResults == {RawResult(l, sc) : l \in RawLabels, sc \in RawScores} \cup {EmptyResult}
ProbeTimes == {0, 2999, 3000, 6000, 18000, 20999, 21000}

\* detectEmotion on one frame whose classifier call resolved with res.
ClassifyFrame(res) ==
  /\ probe.by = "none"
  /\ probe' = [NoProbe EXCEPT !.by = "primary", !.results = res,
                              !.prediction = primaryPrediction(res, now).value]
  /\ UNCHANGED <<mode, now, rng, ticks, svcVars, loadVars, detects, lastOutcome,
                 indexVars, attachVars, webcam>>

\* fallbackEmotionDetection on one frame at clock reading t, and on a second
\* frame at the same or a later reading (before is the first frame's result).
FallbackFrame(t, r) ==
  /\ \/ probe.by = "none"
     \/ probe.by = "fallback" /\ probe.before = NullPrediction /\ t >= now
  /\ now' = t
  /\ rng' = NextRandom(r)
  /\ probe' = [NoProbe EXCEPT !.by = "fallback",
                              !.prediction = fallbackEmotionDetection(t, r),
                              !.before = probe.prediction]
  /\ UNCHANGED <<mode, ticks, svcVars, loadVars, detects, lastOutcome,
                 indexVars, attachVars, webcam>>

\* The elements detectEmotion accepts, with the dimensions they report: a
\* video has videoWidth / videoHeight (0 until its metadata is loaded), an
\* image or a canvas has width / height.
SourceKinds == {"video", "image", "canvas"}
Dimensions == {0, 50, 100, 224, 1280}
FrameSources ==
  [kind : SourceKinds, videoWidth : Dimensions, videoHeight : Dimensions,
   width : Dimensions, height : Dimensions]

\* The dimension read on each axis: imageElement instanceof HTMLVideoElement
\* selects videoWidth / videoHeight, anything else width / height.
intrinsicWidth(src) == IF src.kind = "video" THEN src.videoWidth ELSE src.width
intrinsicHeight(src) == IF src.kind = "video" THEN src.videoHeight ELSE src.height

\* x || d on a number that is never NaN.
OrDefault(x, d) == IF x # 0 THEN x ELSE d

\* Mutant: the canvas takes the element's size with no minimum side.
canvasSize_noMinimum(src) ==
  [width |-> OrDefault(intrinsicWidth(src), DefaultWidth),
   height |-> OrDefault(intrinsicHeight(src), DefaultHeight)]
\* canvas.width / canvas.height as detectEmotion sets them.
canvasSize(src) ==
  [width |-> Max(OrDefault(intrinsicWidth(src), DefaultWidth), MinSide),
   height |-> Max(OrDefault(intrinsicHeight(src), DefaultHeight), MinSide)]

\* detectEmotion sizing the canvas for one element.
ExtractFrame(src) ==
  /\ probe.by = "none"
  /\ probe' = [NoProbe EXCEPT !.by = "extract", !.source = src,
                              !.canvas = canvasSize(src)]
  /\ UNCHANGED <<mode, now, rng, ticks, svcVars, loadVars, detects, lastOutcome,
                 indexVars, attachVars, webcam>>

NextClassify ==
  \/ \E src \in FrameSources : ExtractFrame(src)
  \/ \E res \in RawResults : ClassifyFrame(res)
  \/ \E t \in ProbeTimes, r \in 0..(RandDenom - 1) : FallbackFrame(t, r)

SpecClassify == Init /\ [][NextClassify]_vars

\* ================================================================== claims

\* C1: detectEmotionWithFallback never resolves to null and never rejects:
\* whatever the loader state and however the primary path ended (prediction,
\* null, rejected, or not consulted), each completed call yields a prediction.
C1_AlwaysAPrediction ==
  lastOutcome.primary # "none" =>
    /\ lastOutcome.kind = "prediction"
    /\ lastOutcome.result # NullPrediction

\* C1 witness: a call whose detectEmotion rejected (every candidate failed to
\* load) still resolved to a prediction.
C1_Witness ==
  /\ lastOutcome.primary = "rejected"
  /\ lastOutcome.kind = "prediction"
  /\ lastOutcome.result # NullPrediction

LoadersInFlight ==
  Cardinality({i \in DOMAIN uiInit : uiInit[i].pc = "loading"})
    + Cardinality({d \in DOMAIN detects : detects[d].pc = "init_wait"})
PendingAttempts == {i \in DOMAIN attempts : attempts[i].result = "pending"}

\* C2: at most one candidate load sequence is in progress at any time; an
\* initialize() call made while the loader is initializing or ready returns
\* at once without calling pipeline(), so no candidate is tried twice within
\* one attempt.
C2_SingleLoadSequence ==
  /\ LoadersInFlight <= 1
  /\ isInitializing <=> LoadersInFlight = 1
  /\ Cardinality(PendingAttempts) = LoadersInFlight
  /\ \A i, j \in DOMAIN attempts : i # j => attempts[i].cand # attempts[j].cand
  /\ \A i \in DOMAIN uiInit :
       (uiInit[i].pc = "resolved" /\ uiInit[i].cand = 0)
         => uiInit[i].at \in {"initializing", "ready"}

\* C2 witness: while a load sequence is pending, another initialize() call
\* has already returned without trying any candidate.
C2_Witness ==
  /\ isInitializing
  /\ LoadersInFlight = 1
  /\ \E i \in DOMAIN uiInit :
       uiInit[i].pc = "resolved" /\ uiInit[i].cand = 0 /\ uiInit[i].at = "initializing"

\* C3 (as claimed): when initialize() calls overlap, each call completes only
\* once the load sequence reached ready or failed, so every completed call
\* saw the loader in its terminal state.
C3_SameTerminalState ==
  \A i \in DOMAIN uiInit :
    uiInit[i].pc \in {"resolved", "rejected"} => uiInit[i].at \in {"ready", "failed"}

\* C4: emotionHistory never holds more than 50 entries, and every append
\* puts the new prediction last, dropping the oldest entry exactly when the
\* history already held 50.
C4_BoundedHistory ==
  /\ [](Len(emotionHistory) <= 50)
  /\ [][emotionHistory' # emotionHistory =>
          emotionHistory' =
            IF Len(emotionHistory) < 50
            THEN Append(emotionHistory, currentEmotion')
            ELSE Append(Tail(emotionHistory), currentEmotion')]_vars

\* C4 witness: 52 predictions were appended and the history holds the last
\* 50 of them, the oldest two evicted.
C4_Witness ==
  /\ ticks = 52
  /\ Len(emotionHistory) = 50
  /\ emotionHistory[50] = currentEmotion
  /\ \A i \in 1..49 : emotionHistory[i].timestamp + TickInterval = emotionHistory[i + 1].timestamp
  /\ emotionHistory[1].timestamp = now - 49 * TickInterval

\* C5: every prediction the primary or the fallback classifier produces has
\* its confidence in [0,1] (0..100 hundredths), whatever raw score the model
\* reported; a NaN or absent score gives 0.5.
C5_ConfidenceInRange ==
  /\ (probe.by = "primary" /\ probe.results.kind = "array") =>
       /\ probe.prediction.confidence \in 0..100
       /\ probe.results.score.tag \in {"nan", "absent"}
            => probe.prediction.confidence = 50
  /\ probe.by = "fallback" => probe.prediction.confidence \in 0..100

\* C5 witness: a top result with a NaN score became a prediction with
\* confidence 0.5.
C5_Witness ==
  /\ probe.by = "primary"
  /\ probe.results.kind = "array"
  /\ probe.results.score = NaN
  /\ probe.prediction.confidence = 50

\* C6 (as claimed): for every raw label string the normalised label is one of
\* the seven canonical labels: the tabled label when the lower-cased string
\* is a key of the synonym table, neutral otherwise.
C6_LabelNormalized ==
  (probe.by = "primary" /\ probe.results.kind = "array") =>
    LET key == toLowerCase(probe.results.label)
    IN  /\ probe.prediction.emotion \in CanonicalLabels
        /\ key \in DOMAIN emotionMapOwn => probe.prediction.emotion = emotionMapOwn[key]
        /\ key \notin DOMAIN emotionMapOwn => probe.prediction.emotion = "neutral"

\* C7 (as claimed): once every candidate of an initialization attempt has
\* failed the loader stays failed: isReady() stays false and no load sequence
\* is started again.
C7_FailedIsPermanent ==
  [][LoaderState = "failed" => (LoaderState' = "failed" /\ ~isReady')]_vars

\* The caller of the load sequence logged in attempts saw it reject.
ErrorSurfaced ==
  LET o == attempts[Len(attempts)].owner
  IN  IF o.kind = "ui"
      THEN uiInit[o.id].pc = "rejected" /\ uiInit[o.id].at = "failed"
      ELSE lastOutcome.primary = "rejected"

\* C8: when the last candidate of a load sequence fails, initialize()
\* rejects to its caller and leaves the loader not ready, not initializing
\* and without a classifier handle; and it rejects in no other case.
C8_AllFailedSurfaces ==
  /\ [][(~AllCandidatesFailed /\ AllCandidatesFailed') =>
          (/\ ~isInitialized'
           /\ ~isInitializing'
           /\ classifier' = Null
           /\ ErrorSurfaced')]_vars
  /\ [](\A i \in DOMAIN uiInit : uiInit[i].pc = "rejected" =>
          (uiInit[i].cand = NumCandidates /\ uiInit[i].at = "failed"))

\* C8 witness: the Index effect's initialize() was rejected after all three
\* candidates failed, and the loader is idle without a handle.
C8_Witness ==
  /\ AllCandidatesFailed
  /\ uiInit[1].pc = "rejected"
  /\ ~isInitialized /\ ~isInitializing /\ classifier = Null

\* C9 (as claimed): the loader state changes only along
\* uninitialized -> initializing -> {ready | failed}, and once ready it stays
\* ready with the same handle.
C9_LoaderStateMachine ==
  /\ [][LoaderState' # LoaderState =>
          <<LoaderState, LoaderState'>> \in
             { <<"uninitialized", "initializing">>,
               <<"initializing", "ready">>,
               <<"initializing", "failed">> }]_vars
  /\ [][isInitialized => (isInitialized' /\ classifier' = classifier)]_vars

\* C10: within one load sequence the candidates are tried in list order, one
\* at a time, each only after the previous one failed; the first candidate
\* that loads is adopted as the handle and none after it is tried.
C10_CandidatesInOrder ==
  /\ \A i \in DOMAIN attempts :
       /\ attempts[i].cand = i
       /\ attempts[i].owner = attempts[1].owner
       /\ i < Len(attempts) => attempts[i].result = "failed"
       /\ attempts[i].result = "ok" => (isInitialized /\ classifier = attempts[i].cand)
  /\ Len(attempts) <= NumCandidates
  /\ isInitialized =>
       (attempts # <<>> /\ attempts[Len(attempts)].result = "ok"
          /\ classifier = Len(attempts))
  /\ ~isInitialized => classifier = Null

\* C10 witness: the first two candidates failed, the third loaded and is the
\* handle.
C10_Witness ==
  /\ Len(attempts) = 3
  /\ attempts[1].result = "failed" /\ attempts[2].result = "failed"
  /\ attempts[3].result = "ok"
  /\ isInitialized /\ classifier = 3

\* C11 (as claimed): detectEmotion never propagates a failure: a throwing
\* classifier, an empty result, a missing render context and a failed model
\* load all make it resolve to null, never reject.
C11_DetectNeverRejects ==
  lastOutcome.primary \in {"none", "skipped", "prediction", "null"}

\* The fallback's fixed cyclic order of labels.
CyclicOrder == <<"happy", "neutral", "surprised", "sad", "angry", "fear", "disgust">>

\* C12: the fallback's label depends on the call time only: it is the element
\* floor(now / 3000) mod 7 of the fixed order, so two calls at the same time
\* give the same label and calls 3000 ms apart give different labels.
C12_FallbackLabelByTime ==
  probe.by = "fallback" =>
    /\ probe.prediction.timestamp = now
    /\ probe.prediction.emotion = CyclicOrder[((now \div 3000) % 7) + 1]
    /\ probe.before # NullPrediction =>
         /\ probe.before.timestamp = now
              => probe.before.emotion = probe.prediction.emotion
         /\ probe.before.timestamp + 3000 = now
              => probe.before.emotion # probe.prediction.emotion

\* C12 witness: the fallback was called at 18000 and at 21000 with different
\* random draws and answered disgust, then happy.
C12_Witness ==
  /\ probe.by = "fallback"
  /\ probe.before.timestamp = 18000 /\ probe.before.emotion = "disgust"
  /\ probe.prediction.timestamp = 21000 /\ probe.prediction.emotion = "happy"
  /\ probe.before.confidence # probe.prediction.confidence

\* The detection calls of the timer that have not completed yet.
PendingDetections == {d \in DOMAIN detects : detects[d].pc # "idle"}

\* C13 (as claimed): polling ticks are strictly sequential: never are two
\* detection attempts of the polling loop in flight at once.
C13_TicksSequential == Cardinality(PendingDetections) <= 1

\* C14 (as claimed): after the interval effect's cleanup, a detection started
\* under the previous attachment completes without changing currentEmotion
\* or emotionHistory.
C14_DiscardAfterDetach ==
  [][\A d \in DOMAIN detects :
       (detects[d].pc # "idle" /\ detects[d].att \notin intervals /\ detects'[d].pc = "idle")
         => UNCHANGED indexVars]_vars

\* C15: currentEmotion is null exactly when emotionHistory is empty, and
\* otherwise it is the last entry of emotionHistory.
C15_CurrentIsLast ==
  /\ currentEmotion = NullPrediction <=> emotionHistory = <<>>
  /\ emotionHistory # <<>> => currentEmotion = emotionHistory[Len(emotionHistory)]

\* C15 witness: several predictions were recorded and the current one is the
\* last of them and differs from the first.
C15_Witness ==
  /\ Len(emotionHistory) >= 3
  /\ currentEmotion = emotionHistory[Len(emotionHistory)]
  /\ currentEmotion # emotionHistory[1]

\* C16: while the page is mounted every tick appends exactly one non-null
\* prediction: once the handlers of the k ticks fired so far have completed,
\* the history holds min(k, 50) entries, whether the model answered or not.
C16_OneEntryPerTick ==
  /\ []((mounted /\ PendingDetections = {}) =>
          /\ Len(emotionHistory) = Min(ticks, 50)
          /\ \A i \in DOMAIN emotionHistory : emotionHistory[i] # NullPrediction)
  /\ [][Len(emotionHistory') <= Len(emotionHistory) + 1]_vars

\* C16 witness: primary-first mode, three ticks on which the model never
\* gave an answer, three fallback predictions in the history.
C16_Witness ==
  /\ mode = "primaryFirst"
  /\ mounted /\ PendingDetections = {}
  /\ ticks = 3
  /\ ~isInitialized
  /\ Len(emotionHistory) = 3
  /\ currentEmotion = emotionHistory[3]

\* C17: attaching another video element leaves currentEmotion and
\* emotionHistory as they were, and polling runs on the new element.
C17_ReattachKeepsHistory ==
  [][videoElement' # videoElement =>
       (/\ emotionHistory' = emotionHistory
        /\ currentEmotion' = currentEmotion
        /\ intervals' = {videoElement'} /\ videoElement' # Null)]_vars

\* C17 witness: a detection started under the previous element is still
\* pending under the new one, and the history recorded so far is in place.
C17_Witness ==
  /\ intervals # {}
  /\ \E d \in DOMAIN detects : detects[d].pc # "idle" /\ detects[d].att \notin intervals
  /\ Len(emotionHistory) >= 1
  /\ currentEmotion = emotionHistory[Len(emotionHistory)]

\* C18: for every score the model reports that is present and not NaN the
\* confidence is the score clamped into [0, 1] (1.4 gives 1.0, -0.2 gives 0.0,
\* a score inside [0, 1], 0 included, is kept); only an absent or NaN score
\* gives 0.5.
C18_ConfidenceIsClampedScore ==
  (probe.by = "primary" /\ probe.results.kind = "array") =>
    /\ probe.results.score.tag = "num" =>
         probe.prediction.confidence = Min(100, Max(0, probe.results.score.val))
    /\ probe.prediction.confidence = 50 /\ probe.results.score # Num(50) =>
         probe.results.score.tag \in {"nan", "absent"}

\* C19, as stated: for every element the canvas is max(intrinsicWidth, 224)
\* wide and max(intrinsicHeight, 224) high, for every intrinsic dimension
\* from 0 up.
C19_CanvasIsMaxOfIntrinsic ==
  probe.by = "extract" =>
    /\ probe.canvas.width = Max(intrinsicWidth(probe.source), 224)
    /\ probe.canvas.height = Max(intrinsicHeight(probe.source), 224)

\* C19, amended: per axis, a positive intrinsic dimension d gives max(d, 224);
\* an intrinsic dimension of 0 gives the default, 640 for the width and 480
\* for the height.
C19_CanvasSize ==
  probe.by = "extract" =>
    LET w == intrinsicWidth(probe.source)
        h == intrinsicHeight(probe.source)
    IN  /\ w > 0 => probe.canvas.width = Max(w, 224)
        /\ w = 0 => probe.canvas.width = 640
        /\ h > 0 => probe.canvas.height = Max(h, 224)
        /\ h = 0 => probe.canvas.height = 480

\* C19 witness: a 100x50 video gets a 224x224 canvas.
C19_Witness ==
  /\ probe.by = "extract"
  /\ probe.source.kind = "video"
  /\ probe.source.videoWidth = 100 /\ probe.source.videoHeight = 50
  /\ probe.canvas = [width |-> 224, height |-> 224]

\* C20: the classifier handle is invoked only while the loader is ready; a
\* detectEmotion that starts while the loader is not ready completes an
\* initialization first, so in no interleaving, another caller's initialize()
\* in flight included, is the handle invoked while it is absent.
C20_NeverInvokesAbsentHandle ==
  /\ lastOutcome.invoked # "null"
  /\ \A d \in DOMAIN detects : detects[d].pc = "classify_wait" => isReady

\* C25: at most one polling timer is live at any time and only while an
\* element is attached to the mounted page: the live timer is the one of the
\* attached element, every change of the element and the unmount clear the
\* previous one, and a tick comes from the attached element's timer.
C25_OneTimerWhileAttached ==
  /\ [](/\ Cardinality(intervals) <= 1
        /\ intervals # {} => (mounted /\ videoElement # Null /\ intervals = {videoElement}))
  /\ [][/\ videoElement' # videoElement => intervals' = {videoElement'}
        /\ (mounted /\ ~mounted') => intervals' = {}
        /\ ticks' # ticks => intervals = {videoElement}]_vars

\* C25 witness: the second element is attached after ticks on the first one,
\* and the only live timer is the second element's.
C25_Witness ==
  /\ intervals = {videoElement}
  /\ ticks >= 2
  /\ \E d \in DOMAIN detects : detects[d].pc # "idle" /\ detects[d].att # videoElement

\* C21, as stated: when no 2d context can be obtained for a frame the tick is
\* skipped: the call that ends so appends nothing to emotionHistory and
\* leaves currentEmotion as it was.
C21_NoContextSkipsTick ==
  [][(rng' # rng /\ lastOutcome'.frame = "noContext") => UNCHANGED indexVars]_vars

\* C21, amended: when no 2d context can be obtained for a frame in
\* primary-first mode, detectEmotion answers null without invoking the
\* classifier, detectEmotionWithFallback answers the fallback prediction, and
\* on a mounted page that prediction becomes currentEmotion and is appended
\* to emotionHistory; the timers are left running.
C21_NoContextFallsBack ==
  [][(rng' # rng /\ lastOutcome'.frame = "noContext") =>
       /\ mode = "primaryFirst"
       /\ lastOutcome'.primary = "null" /\ lastOutcome'.invoked = "no"
       /\ lastOutcome'.kind = "prediction"
       /\ lastOutcome'.result = fallbackEmotionDetection(now', rng)
       /\ intervals' = intervals
       /\ mounted => /\ currentEmotion' = lastOutcome'.result
                     /\ emotionHistory' = appendHistory(emotionHistory, lastOutcome'.result)]_vars

\* C21 witness: the latest call found no 2d context and its fallback
\* prediction is the current emotion, after earlier entries; the timer is live.
C21_Witness ==
  /\ lastOutcome.frame = "noContext"
  /\ currentEmotion = lastOutcome.result
  /\ Len(emotionHistory) >= 2
  /\ emotionHistory[Len(emotionHistory)] = lastOutcome.result
  /\ intervals # {}

\* A step on which a detectEmotionWithFallback call of the timer completes.
CallCompletes ==
  \/ \E d \in DOMAIN detects : detects[d].pc # "idle" /\ detects'[d].pc = "idle"
  \/ ticks' # ticks /\ detects' = detects

\* C22: in primary-first mode detectEmotionWithFallback returns the model's
\* prediction whenever detectEmotion resolved to one, without consulting the
\* fallback (no Math.random() draw), and returns the fallback's prediction
\* exactly when detectEmotion resolved to null or rejected.
C22_PrimaryFirst ==
  [][(mode = "primaryFirst" /\ CallCompletes) =>
       /\ lastOutcome'.primary \in {"prediction", "null", "rejected"}
       /\ lastOutcome'.primary = "prediction" =>
            /\ rng' = rng
            /\ lastOutcome'.invoked = "handle"
            /\ \E res \in ClassifierOutputs :
                 /\ res.kind = "array"
                 /\ lastOutcome'.result = primaryPrediction(res, now').value
       /\ lastOutcome'.primary \in {"null", "rejected"} =>
            /\ rng' = NextRandom(rng)
            /\ lastOutcome'.result = fallbackEmotionDetection(now', rng)]_vars

\* C22 witness: after a tick answered by the fallback, the latest tick was
\* answered by the model and its prediction is the current emotion.
C22_Witness ==
  /\ mode = "primaryFirst"
  /\ lastOutcome.primary = "prediction"
  /\ Len(emotionHistory) >= 2
  /\ currentEmotion = lastOutcome.result
  /\ currentEmotion.confidence = 100
  /\ emotionHistory[1].confidence < 100

\* C23: with the fallback pinned, a detectEmotionWithFallback call leaves the
\* loader alone: it starts no load, never invokes the classifier, and
\* isInitialized, isInitializing and the handle are after the call what they
\* were before it, on every tick.
C23_PinnedLeavesLoaderAlone ==
  /\ [](mode = "fallbackOnly" =>
          /\ PendingDetections = {}
          /\ lastOutcome.invoked = "no"
          /\ \A i \in DOMAIN attempts : attempts[i].owner.kind = "ui")
  /\ [][(mode = "fallbackOnly" /\ ticks' # ticks) =>
          /\ UNCHANGED <<classifier, isInitialized, isInitializing>>
          /\ attempts' = attempts
          /\ lastOutcome'.primary = "skipped"]_vars

\* C23 witness: pinned mode, four ticks recorded while the page's own
\* initialize() is still loading a candidate.
C23_Witness ==
  /\ mode = "fallbackOnly"
  /\ ticks = 4 /\ Len(emotionHistory) = 4
  /\ isInitializing /\ ~isInitialized /\ classifier = Null
  /\ lastOutcome.primary = "skipped"

\* C24: provided every candidate load settles, an initialize() call that set
\* isInitializing resets it: whenever the latch is held it is eventually
\* released, after a successful load and after the last candidate failed.
C24_LatchReleased == isInitializing ~> ~isInitializing

\* C24 witness: the latch has been released on the throw path, after all
\* three candidates of a detectEmotion-owned initialize() failed.
C24_Witness ==
  /\ ~isInitializing /\ ~isInitialized
  /\ AllCandidatesFailed
  /\ \A i \in DOMAIN attempts : attempts[i].owner.kind = "detect"
  /\ lastOutcome.primary = "rejected"

\* C26: from an inactive camera, a startWebcam that passed the origin check
\* and was granted a stream leaves the camera active (isActive true), has
\* called onVideoReady with the video element, so that the page polls it,
\* and has shown the 'Camera Active' notice.
C26_StartActivatesCamera ==
  (mounted /\ webcam.pc = "idle" /\ webcam.lastStart = "granted") =>
    /\ webcam.isActive
    /\ webcam.srcObject # Null
    /\ videoElement = WebcamVideo
    /\ intervals = {WebcamVideo}
    /\ webcam.toast = "active"

====
